---- MODULE Spec2Model ----
(***************************************************************************)
(* SpriteMapMaterial (materialsLibrary/src/custom/spriteMap): the frame,   *)
(* tile and animation lookup buffers, their mutation through changeTiles   *)
(* and addAnimationToTile, the bind callbacks that refresh the effect's    *)
(* sampler bindings, and the fragment program that composites the layers.  *)
(*                                                                         *)
(* A second, unrelated program shares the module: the loop of               *)
(* USDExport.ExportAsBinaryZip (serializers/src/USD) that walks from a mesh  *)
(* to its root parent.                                                       *)
(*                                                                         *)
(* Numbers.  Buffer cells are Float32 values.  Sprite indices and pixel    *)
(* values are integers; fractions (tile UV, time, hold fraction, speed,    *)
(* alpha) are fixed point in units of 1/Q.  JS index k of an array is      *)
(* index k+1 of the TLA+ sequence.                                         *)
(***************************************************************************)
EXTENDS Integers, Sequences, FiniteSets, TLC

VARIABLES
    params,           \* ISpriteMapMaterial after the constructor's defaults
    frameBuffer,      \* _frameBuffer: [tex, data]
    tileBuffers,      \* _tileBuffers: sequence over layers of [tex, data]
    animationBuffer,  \* _animationBuffer: [tex, data]
    disposeCount,     \* texture id -> number of dispose() calls on it
    nextTex,          \* next texture id RawTexture.CreateRGBATexture hands out
    effect,           \* sampler bindings of the effect: [bound, tileBuffers, frameBuffer, animationBuffer]
    onBind,           \* pending onBindObservable.addOnce callbacks, in order of registration
    phase,            \* "idle" | "bound" | "drawn": position in the frame
    lastCall,         \* arguments of the last mutation call
    lastResult,       \* what the last call (at first the constructor) gave its caller
    repeated,         \* that call had the arguments of the call before it
    lastSample,       \* trace of the last fragment evaluation
    spriteMapSize,    \* the spriteMapSize uniform
    onLoad,           \* observers pending on params.diffuse.onLoadObservable
    ops,              \* number of mutation calls so far
    scene,            \* USDExport: the scene's nodes, [parent, geometry]; node 0 is null
    mesh,             \* USDExport: the mesh the forEach callback runs for
    target,           \* USDExport: the callback's local target
    rootParent,       \* USDExport: the callback's local rootParent
    pc,               \* USDExport: position in ExportAsBinaryZip
    output            \* USDExport: the meshes written so far, each with its rootParent

vars == <<params, frameBuffer, tileBuffers, animationBuffer, disposeCount, nextTex,
          effect, onBind, phase, lastCall, lastResult, repeated, lastSample, spriteMapSize, onLoad, ops,
          scene, mesh, target, rootParent, pc, output>>

materialVars == <<params, frameBuffer, tileBuffers, animationBuffer, disposeCount, nextTex,
                  effect, onBind, phase, lastCall, lastResult, repeated, lastSample,
                  spriteMapSize, onLoad, ops>>

usdVars == <<scene, mesh, target, rootParent, pc, output>>

\* no export is running
NoExport ==
    /\ scene = [parent |-> <<>>, geometry |-> <<>>]
    /\ mesh = 0 /\ target = 0 /\ rootParent = 0
    /\ pc = "none" /\ output = <<>>

-----------------------------------------------------------------------------
(* Bounds of the model *)

MaxLayers == 2
MaxAnimationFrames == 2
MaxOps == 2
HalfQ == 2
MaxSprites == 2
MaxPixel == 16384
MaxNodes == 3

Q == 2 * HalfQ

-----------------------------------------------------------------------------
(* Numbers *)

Min(a, b) == IF a < b THEN a ELSE b
Max(a, b) == IF a > b THEN a ELSE b
Abs(a) == IF a < 0 THEN 0 - a ELSE a

\* Math.floor of a coordinate given in half units (-1 is -0.5, 3 is 1.5)
Floor2(h) == h \div 2

RECURSIVE Pow2(_)
Pow2(n) == IF n = 0 THEN 1 ELSE 2 * Pow2(n - 1)

F32Mantissa == 24

RECURSIVE F32Exp(_, _)
F32Exp(m, k) == IF m < Pow2(F32Mantissa + k) THEN k ELSE F32Exp(m, k + 1)

\* Storing an integer in a Float32Array: round to a 24 bit mantissa, ties to even
Fround(n) ==
    LET m == Abs(n)
        k == F32Exp(m, 0)
        ulp == Pow2(k)
        q == m \div ulp
        r == m % ulp
        up == (2 * r > ulp) \/ (2 * r = ulp /\ q % 2 = 1)
        v == (IF up THEN q + 1 ELSE q) * ulp
    IN IF n < 0 THEN 0 - v ELSE v

F32Array(data) == [k \in DOMAIN data |-> Fround(data[k])]

Zeros(n) == [k \in 1..n |-> 0]

\* data[id] = v on a plain JS array whose index is inside the array
ArrSet(data, id, v) == [data EXCEPT ![id + 1] = v]

\* buffer[id] += v in place of buffer[id] = v
F32SetAdd(buffer, id, v) ==
    IF id >= 0 /\ id < Len(buffer) THEN [buffer EXCEPT ![id + 1] = Fround(@ + v)] ELSE buffer

\* buffer[id] = v on a Float32Array: an index outside the array is ignored
F32Set(buffer, id, v) ==
    IF id >= 0 /\ id < Len(buffer) THEN [buffer EXCEPT ![id + 1] = Fround(v)] ELSE buffer

-----------------------------------------------------------------------------
(* The atlas *)

Rect(x, y, w, h) == [x |-> x, y |-> y, w |-> w, h |-> h]

Sprite(f, sss, ss, r, t) ==
    [frame |-> f, spriteSourceSize |-> sss, sourceSize |-> ss, rotated |-> r, trimmed |-> t]

\* spriteCount
SpriteCount(p) == Len(p.atlas)

\* the writes with the row stride of a one sprite table
FrameWritesOneWide(sprites, i) ==
    LET s == sprites[i + 1]
        f == s.frame
        sss == s.spriteSourceSize
        ss == s.sourceSize
        r == IF s.rotated THEN 1 ELSE 0
        t == IF s.trimmed THEN 1 ELSE 0
    IN << <<i * 4, f.x>>, <<i * 4 + 1, f.y>>, <<i * 4 + 2, f.w>>, <<i * 4 + 3, f.h>>,
          <<i * 4 + 4, sss.x>>, <<i * 4 + 1 + 4, sss.y>>, <<i * 4 + 3 + 4, sss.h>>,
          <<i * 4 + 8, ss.w>>, <<i * 4 + 1 + 8, ss.h>>,
          <<i * 4 + 2 + 8, r>>, <<i * 4 + 3 + 8, t>> >>

\* _buildFrameBuffer, second pass, sprite i (0-based): the eleven writes
FrameWrites(sprites, i) ==
    LET n == Len(sprites)
        s == sprites[i + 1]
        f == s.frame
        sss == s.spriteSourceSize
        ss == s.sourceSize
        r == IF s.rotated THEN 1 ELSE 0
        t == IF s.trimmed THEN 1 ELSE 0
    IN << <<i * 4, f.x>>, <<i * 4 + 1, f.y>>, <<i * 4 + 2, f.w>>, <<i * 4 + 3, f.h>>,
          <<i * 4 + (n * 4), sss.x>>, <<i * 4 + 1 + (n * 4), sss.y>>,
          <<i * 4 + 3 + (n * 4), sss.h>>,
          <<i * 4 + (n * 8), ss.w>>, <<i * 4 + 1 + (n * 8), ss.h>>,
          <<i * 4 + 2 + (n * 8), r>>, <<i * 4 + 3 + (n * 8), t>> >>

RECURSIVE ApplyWrites(_, _, _)
ApplyWrites(data, ws, k) ==
    IF k > Len(ws) THEN data
    ELSE ApplyWrites(ArrSet(data, ws[k][1], ws[k][2]), ws, k + 1)

RECURSIVE FramePass(_, _, _)
FramePass(data, sprites, i) ==
    IF i >= Len(sprites) THEN data
    ELSE FramePass(ApplyWrites(data, FrameWrites(sprites, i), 1), sprites, i + 1)

\* _buildFrameBuffer: the Float32Array handed to the texture
BuildFrameBuffer(sprites) ==
    F32Array(FramePass(Zeros(16 * Len(sprites)), sprites, 0))

\* the width _buildFrameBuffer gives the frame texture; its height is 4
FrameBufferWidth(p) == SpriteCount(p)

-----------------------------------------------------------------------------
(* Tile and animation buffers *)

StageX(p) == p.stageSize[1]
StageY(p) == p.stageSize[2]

\* the fill with baseTile on every layer
TileFillEveryLayer(p, layer) ==
    [k \in 1..(StageX(p) * StageY(p) * 4) |-> IF (k - 1) % 4 = 0 THEN p.baseTile ELSE 0]

\* _createTileBuffer(null, _layer): the default fill
TileFill(p, layer) ==
    LET bt == IF layer # 0 THEN 0 ELSE p.baseTile
    IN [k \in 1..(StageX(p) * StageY(p) * 4) |-> IF (k - 1) % 4 = 0 THEN bt ELSE 0]

\* a nullable value: <<>> is null, <<v>> is the value v
Null == <<>>
Some(v) == <<v>>
OrElse(opt, d) == IF opt = Null THEN d ELSE opt[1]

\* _createTileBuffer(buffer, _layer): the Float32Array of the new texture
\* (a copy of the buffer passed in, or the default fill when there is none)
CreateTileBuffer(p, buffer, layer) ==
    F32Array(IF buffer = Null THEN TileFill(p, layer) ELSE buffer[1])

\* _createTileAnimationBuffer(buffer): the array of the new texture
\* (the buffer passed in itself, or zeros when there is none)
CreateTileAnimationBuffer(p, buffer) ==
    IF buffer = Null
    THEN F32Array(Zeros(SpriteCount(p) * Max(1, p.maxAnimationFrames) * 4))
    ELSE buffer[1]

\* RawTexture.CreateRGBATexture: a texture with a fresh id that keeps its data
Texture(id, data) == [tex |-> id, data |-> data]

\* a dispose that releases nothing
DisposeNothing(count, id) == count

\* texture.dispose()
Dispose(count, id) == [count EXCEPT ![id] = @ + 1]

-----------------------------------------------------------------------------
(* Mutations *)

Vector2(x, y) == [kind |-> "Vector2", x |-> x, y |-> y]

\* changeTiles: pos instanceof Vector2 ? [pos] : pos
PosList(pos) == IF pos.kind = "Vector2" THEN <<pos>> ELSE pos.items

\* the cell index with x and y exchanged
TileIdTransposed(p, v) == (Floor2(v.y) * 4) + (Floor2(v.x) * (StageX(p) * 4))

\* the index of the cell's second channel
TileIdNextChannel(p, v) == (Floor2(v.x) * 4) + (Floor2(v.y) * (StageX(p) * 4)) + 1

\* changeTiles: the cell index written for one position, after Math.floor
TileId(p, v) == (Floor2(v.x) * 4) + (Floor2(v.y) * (StageX(p) * 4))

\* a loop that stops after the first position
WriteTilesFirstOnly(p, buffer, ps, tile, i) ==
    IF Len(ps) = 0 THEN buffer ELSE F32Set(buffer, TileId(p, ps[1]), tile)

\* changeTiles: the loop over the positions, from position i on
RECURSIVE WriteTiles(_, _, _, _, _)
WriteTiles(p, buffer, ps, tile, i) ==
    IF i > Len(ps) THEN buffer
    ELSE WriteTiles(p, F32Set(buffer, TileId(p, ps[i]), tile), ps, tile, i + 1)

\* the index in a table that keeps the slots of one sprite next to each other
AnimIdSlotsAdjacent(p, cellID, frame) == (cellID * 4 * p.maxAnimationFrames) + (4 * frame)

\* addAnimationToTile: the cell index
AnimId(p, cellID, frame) == (cellID * 4) + (SpriteCount(p) * 4 * frame)

\* addAnimationToTile: the three writes
WriteAnimation(p, buffer, cellID, frame, toCell, time, speed) ==
    LET id == AnimId(p, cellID, frame)
    IN F32Set(F32Set(F32Set(buffer, id, toCell), id + 1, time), id + 2, speed)

\* changeTiles(_layer, pos, tile)
ChangeTiles(layer, pos, tile) ==
    /\ phase = "idle"
    /\ ops < MaxOps
    /\ ops' = ops + 1
    /\ lastCall' = [op |-> "changeTiles", layer |-> layer, pos |-> pos, tile |-> tile]
    /\ repeated' = (lastCall' = lastCall)
    /\ IF layer < 0 \/ layer >= Len(tileBuffers)
       THEN \* this._tileBuffers[_layer] is undefined: reading _texture throws
            /\ lastResult' = "TypeError"
            /\ UNCHANGED <<tileBuffers, disposeCount, nextTex, onBind>>
       ELSE LET buffer == WriteTiles(params, tileBuffers[layer + 1].data, PosList(pos), tile, 1)
                t == Texture(nextTex, CreateTileBuffer(params, Some(buffer), 0))
            IN /\ lastResult' = "void"
               /\ nextTex' = nextTex + 1
               /\ disposeCount' = Dispose(disposeCount @@ (nextTex :> 0), tileBuffers[layer + 1].tex)
               /\ tileBuffers' = [tileBuffers EXCEPT ![layer + 1] = t]
               /\ onBind' = Append(onBind, "tileBuffers")
    /\ UNCHANGED usdVars
    /\ UNCHANGED <<params, frameBuffer, animationBuffer, effect, phase, lastSample, spriteMapSize, onLoad>>

\* addAnimationToTile(cellID, _frame, toCell, time, speed)
AddAnimationToTile(cellID, frame, toCell, time, speed) ==
    /\ phase = "idle"
    /\ ops < MaxOps
    /\ ops' = ops + 1
    /\ lastCall' = [op |-> "addAnimationToTile", cellID |-> cellID, frame |-> frame,
                    toCell |-> toCell, time |-> time, speed |-> speed]
    /\ repeated' = (lastCall' = lastCall)
    /\ LET buffer == WriteAnimation(params, animationBuffer.data, cellID, frame, toCell, time, speed)
           t == Texture(nextTex, CreateTileAnimationBuffer(params, Some(buffer)))
       IN /\ lastResult' = "void"
          /\ nextTex' = nextTex + 1
          /\ disposeCount' = Dispose(disposeCount @@ (nextTex :> 0), animationBuffer.tex)
          /\ animationBuffer' = t
          /\ onBind' = Append(onBind, "animationBuffer")
    /\ UNCHANGED usdVars
    /\ UNCHANGED <<params, frameBuffer, tileBuffers, effect, phase, lastSample, spriteMapSize, onLoad>>

-----------------------------------------------------------------------------
(* Binding *)

TexIds(buffers) == [k \in DOMAIN buffers |-> buffers[k].tex]

\* callbacks of which only the constructor's sets textures
RunCallbackInitOnly(e, cb) ==
    IF cb = "init"
    THEN [bound |-> TRUE, tileBuffers |-> TexIds(tileBuffers),
          frameBuffer |-> frameBuffer.tex, animationBuffer |-> animationBuffer.tex]
    ELSE e

\* one onBindObservable.addOnce callback
RunCallback(e, cb) ==
    IF cb = "init"
    THEN [bound |-> TRUE, tileBuffers |-> TexIds(tileBuffers),
          frameBuffer |-> frameBuffer.tex, animationBuffer |-> animationBuffer.tex]
    ELSE IF cb = "animationBuffer" THEN [e EXCEPT !.animationBuffer = animationBuffer.tex]
    ELSE [e EXCEPT !.tileBuffers = TexIds(tileBuffers)]

RECURSIVE RunCallbacks(_, _, _)
RunCallbacks(e, cbs, k) ==
    IF k > Len(cbs) THEN e ELSE RunCallbacks(RunCallback(e, cbs[k]), cbs, k + 1)

\* layerSampleString: the switch form is well formed; the if-chain form, generated
\* when the engine does not support switch, has `tileBuffers[int(i]` once per
\* layer, a parenthesis that is never closed
LayerSampleCompiles(p) == p.supportSwitchCaseInShader \/ p.layerCount < 1

\* uniform sampler2D tileBuffers[int(layerCount)]: an array size below 1 does not
\* compile, and a material without a compiled effect is never bound
ShaderCompiles == params.layerCount >= 1 /\ LayerSampleCompiles(params)

\* the material is bound for a draw: onBindObservable notifies, once-callbacks are removed
Bind ==
    /\ phase = "idle"
    /\ ShaderCompiles
    /\ phase' = "bound"
    /\ effect' = RunCallbacks(effect, onBind, 1)
    /\ onBind' = <<>>
    /\ UNCHANGED usdVars
    /\ UNCHANGED <<params, frameBuffer, tileBuffers, animationBuffer, disposeCount, nextTex,
                   lastCall, lastResult, repeated, lastSample, spriteMapSize, onLoad, ops>>

-----------------------------------------------------------------------------
(* The fragment program (Fragment_Definitions, Fragment_Custom_Diffuse) *)

Clamp(v, lo, hi) == IF v < lo THEN lo ELSE IF v > hi THEN hi ELSE v

\* texture2D on a NEAREST, clamped RGBA float texture of w x h texels: the texel
\* (col, row), each clamped to the texture; a texture created with no texels
\* (width or height 0) is incomplete and samples as (0, 0, 0, 1)
Fetch(data, w, h, col, row) ==
    LET c == Clamp(col, 0, w - 1)
        r == Clamp(row, 0, h - 1)
        k == (r * w + c) * 4
    IN IF w < 1 \/ h < 1 THEN [x |-> 0, y |-> 0, z |-> 0, w |-> 1]
       ELSE [x |-> data[k + 1], y |-> data[k + 2], z |-> data[k + 3], w |-> data[k + 4]]

\* the data the GPU holds for texture id: a disposed texture holds junk
LiveTextures == {frameBuffer, animationBuffer} \cup {tileBuffers[k] : k \in DOMAIN tileBuffers}

IsLive(id) == \E t \in LiveTextures : t.tex = id

Gpu(id, n, junk) ==
    IF IsLive(id) THEN (CHOOSE t \in LiveTextures : t.tex = id).data
    ELSE [k \in 1..n |-> junk]

\* layerSampleString has the cases 0..layerCount-1: whether one of them assigns
\* frameID in iteration i
Assigned(i) == i >= 0 /\ i < params.layerCount

\* layerSampleString, case i: texture(tileBuffers[i], (tileID + 0.5) / stageSize).x;
\* no case matches i = LAYERS, and frameID keeps its uninitialised value
LayerSample(i, tileID, uninit, junk) ==
    IF Assigned(i)
    THEN Fetch(Gpu(effect.tileBuffers[i + 1], StageX(params) * StageY(params) * 4, junk),
               StageX(params), StageY(params), tileID[1], tileID[2]).x
    ELSE uninit

\* texture2D(animationBuffer, vec2((frameID + 0.5) / spriteCount, aFrameSteps * f))
AnimationData(frameID, f, junk) ==
    LET n == SpriteCount(params)
        m == params.maxAnimationFrames
    IN Fetch(Gpu(effect.animationBuffer, n * m * 4, junk), n, m, frameID, f)

\* the scan with >= in place of >
RECURSIVE AnimationScanGe(_, _, _, _, _)
AnimationScanGe(frameID, animationData, mt, f, junk) ==
    IF f >= params.maxAnimationFrames THEN frameID
    ELSE IF animationData.y * Q >= mt THEN animationData.x
    ELSE AnimationScanGe(frameID, AnimationData(frameID, f, junk), mt, f + 1, junk)

\* a scan that follows the sprite it found one step further along that sprite's own row
RECURSIVE AnimationScanFollow(_, _, _, _, _)
AnimationScanFollow(frameID, animationData, mt, f, junk) ==
    IF f >= params.maxAnimationFrames THEN frameID
    ELSE IF animationData.y * Q > mt
         THEN LET next == AnimationData(animationData.x, 0, junk)
              IN IF next.y * Q > mt THEN next.x ELSE animationData.x
    ELSE AnimationScanFollow(frameID, AnimationData(frameID, f, junk), mt, f + 1, junk)

\* the for loop over f, entered with the animationData read last
RECURSIVE AnimationScan(_, _, _, _, _)
AnimationScan(frameID, animationData, mt, f, junk) ==
    IF f >= params.maxAnimationFrames THEN frameID
    ELSE IF animationData.y * Q > mt THEN animationData.x
    ELSE AnimationScan(frameID, AnimationData(frameID, f, junk), mt, f + 1, junk)

\* mod(time * animationData.z, 1.0), in units of 1/(Q*Q)
Mt(time, speed) == (time * speed) % (Q * Q)

\* lines 195-205: the frame a raw sprite index resolves to at a time
ResolveFrame(frameID, time, junk) ==
    LET animationData == AnimationData(frameID, 0, junk)
    IN IF animationData.y > 0
       THEN AnimationScan(frameID, animationData, Mt(time, animationData.z), 0, junk)
       ELSE frameID

\* getFrameData(frameID + 0.5): rows 0..2 of the frame texture's column
GetFrameData(frameID, junk) ==
    LET n == SpriteCount(params)
        data == Gpu(effect.frameBuffer, 16 * n, junk)
    IN << Fetch(data, n, 4, frameID, 0), Fetch(data, n, 4, frameID, 1),
          Fetch(data, n, 4, frameID, 2) >>

\* the diffuse image params.diffuse: the frame rectangle of sprite k is filled with
\* the colour texels[k], the rest is transparent black
Colour(rgb, a) == [rgb |-> [n |-> rgb, d |-> 1], a |-> a]

InRect(f, px, py) == px >= f.x /\ px < f.x + f.w /\ py >= f.y /\ py < f.y + f.h

DiffuseTexel(px, py) ==
    LET hit == {k \in DOMAIN params.atlas : InRect(params.atlas[k].frame, px, py)}
    IN IF hit = {} THEN Colour(0, 0)
       ELSE LET k == CHOOSE k \in hit : \A j \in hit : k <= j
            IN Colour(params.diffuse.texels[k][1], params.diffuse.texels[k][2])

\* texture2D(spriteDiffuse, (tileUV * frameSize) + offset) with
\* frameSize = frameData[0].wz / spriteMapSize and offset = frameData[0].xy / spriteMapSize
\* (a division by a zero spriteMapSize gives no defined coordinate)
SampleDiffuse(tileUV, frameData, junk) ==
    LET px == (tileUV[1] * frameData[1].w + Q * frameData[1].x) \div Q
        py == (tileUV[2] * frameData[1].z + Q * frameData[1].y) \div Q
    IN IF spriteMapSize[1] = 0 \/ spriteMapSize[2] = 0 THEN Colour(junk, junk * Q)
       ELSE DiffuseTexel(px, py)

\* mix(x, y, a) on exact fractions n/d, a in units of 1/Q
Mix(x, y, a) == [n |-> x.n * y.d * (Q - a) + y.n * x.d * a, d |-> x.d * y.d * Q]

\* the blend with the operands of mix exchanged
BlendUnder(sColor, nc) == [rgb |-> Mix(nc.rgb, sColor.rgb, nc.a), a |-> Min(sColor.a + nc.a, Q)]

\* lines 227-230: the overlay blend
Blend(sColor, nc) == [rgb |-> Mix(sColor.rgb, nc.rgb, nc.a), a |-> Min(sColor.a + nc.a, Q)]

\* lines 213-216: the rotated swap of tileUV
Rotate(tileUV, frameData) ==
    IF frameData[3].z = 1 THEN <<tileUV[2], tileUV[1]>> ELSE tileUV

\* an iteration that blends in every pass, the first included
LayerStepBlendAll(i, tileID, tileUV, sColor, time, uninit, junk) ==
    LET raw == LayerSample(i, tileID, uninit, junk)
        frameID == ResolveFrame(raw, time, junk)
        frameData == GetFrameData(frameID, junk)
        uv == Rotate(tileUV, frameData)
        nc == SampleDiffuse(uv, frameData, junk)
    IN [i |-> i, assigned |-> Assigned(i), raw |-> raw, frameID |-> frameID,
        frameData |-> frameData,
        uvIn |-> tileUV, tileUV |-> uv, nc |-> nc, sColor |-> Blend(sColor, nc)]

\* one iteration of the layer loop
LayerStep(i, tileID, tileUV, sColor, time, uninit, junk) ==
    LET raw == LayerSample(i, tileID, uninit, junk)
        frameID == ResolveFrame(raw, time, junk)
        frameData == GetFrameData(frameID, junk)
        uv == Rotate(tileUV, frameData)
        nc == SampleDiffuse(uv, frameData, junk)
    IN [i |-> i, assigned |-> Assigned(i), raw |-> raw, frameID |-> frameID,
        frameData |-> frameData,
        uvIn |-> tileUV, tileUV |-> uv, nc |-> nc,
        sColor |-> IF i = 0 THEN nc ELSE Blend(sColor, nc)]

\* for (int i = 0; i < LAYERS + 1; i++): the trace of the iterations from i on
RECURSIVE LayerLoop(_, _, _, _, _, _, _)
LayerLoop(i, tileID, tileUV, sColor, time, uninit, junk) ==
    IF i >= params.layerCount + 1 THEN <<>>
    ELSE LET step == LayerStep(i, tileID, tileUV, sColor, time, uninit, junk)
         IN <<step>> \o LayerLoop(i + 1, tileID, step.tileUV, step.sColor, time, uninit, junk)

\* tileUV = fract(tUV), with FLIPU: tileUV.y = 1.0 - tileUV.y
TileUV(frac) == IF params.flipU THEN <<frac[1], Q - frac[2]>> ELSE frac

\* Fragment_Custom_Diffuse for the pixel tUV = tileID + frac at a time
Fragment(tileID, frac, time, uninit, junk) ==
    LET iters == LayerLoop(0, tileID, TileUV(frac), Colour(0, 0), time, uninit, junk)
    IN [tileID |-> tileID, frac |-> frac, time |-> time, iters |-> iters,
        sColor |-> IF iters = <<>> THEN Colour(0, 0) ELSE iters[Len(iters)].sColor,
        textures |-> <<effect.frameBuffer, effect.animationBuffer>> \o effect.tileBuffers]

NoSample == [tileID |-> <<0, 0>>, frac |-> <<0, 0>>, time |-> 0, iters |-> <<>>,
             sColor |-> Colour(0, 0), textures |-> <<>>]

BoundTextures == {effect.frameBuffer, effect.animationBuffer}
                     \cup {effect.tileBuffers[k] : k \in DOMAIN effect.tileBuffers}

\* every texture the fragment program reads is alive, and spriteMapSize is set
DefinedReads ==
    /\ \A id \in BoundTextures : IsLive(id)
    /\ spriteMapSize[1] # 0 /\ spriteMapSize[2] # 0

\* a draw with the material bound: the fragment program runs for a pixel
Draw(tileID, frac, time, uninit) ==
    /\ phase = "bound"
    /\ phase' = "drawn"
    /\ \E junk \in IF DefinedReads THEN {0} ELSE {0, 1} :
           lastSample' = Fragment(tileID, frac, time, uninit, junk)
    /\ UNCHANGED usdVars
    /\ UNCHANGED <<params, frameBuffer, tileBuffers, animationBuffer, disposeCount, nextTex,
                   effect, onBind, lastCall, lastResult, repeated, spriteMapSize, onLoad, ops>>

\* the frame ends
EndFrame ==
    /\ phase = "drawn"
    /\ phase' = "idle"
    /\ lastSample' = NoSample
    /\ UNCHANGED usdVars
    /\ UNCHANGED <<params, frameBuffer, tileBuffers, animationBuffer, disposeCount, nextTex,
                   effect, onBind, lastCall, lastResult, repeated, spriteMapSize, onLoad, ops>>

-----------------------------------------------------------------------------
(* Construction *)

\* the constructor's defaults (lines 51-55)
Defaults(p) ==
    [p EXCEPT !.layerCount = Some(OrElse(@, 1)),
              !.maxAnimationFrames = Some(OrElse(@, 1)),
              !.baseTile = Some(OrElse(@, 0)),
              !.flipU = Some(OrElse(@, FALSE))]

Unwrap(p) ==
    [p EXCEPT !.layerCount = @[1], !.maxAnimationFrames = @[1], !.baseTile = @[1],
              !.flipU = @[1]]

FirstTileTex == 4

\* a size with width and height exchanged
DiffuseSizeSwapped(d) == <<d.baseHeight, d.baseWidth>>

\* spriteMapSize.set(diffuse._texture.baseWidth, diffuse._texture.baseHeight)
DiffuseSize(d) == <<d.baseWidth, d.baseHeight>>

\* the observer added to params.diffuse.onLoadObservable runs: the image has loaded
DiffuseLoaded ==
    /\ ~params.diffuse.ready
    /\ onLoad > 0
    /\ params' = [params EXCEPT !.diffuse.ready = TRUE]
    /\ spriteMapSize' = DiffuseSize(params.diffuse)
    /\ UNCHANGED usdVars
    /\ UNCHANGED <<frameBuffer, tileBuffers, animationBuffer, disposeCount, nextTex, effect,
                   onBind, phase, lastCall, lastResult, repeated, lastSample, onLoad, ops>>

\* the state the constructor leaves for the parameters p0
Constructed(p0) ==
    LET p == Unwrap(Defaults(p0))
    IN /\ params = p
       /\ frameBuffer = Texture(1, BuildFrameBuffer(p.atlas))
       /\ animationBuffer = Texture(2, CreateTileAnimationBuffer(p, Null))
       /\ tileBuffers = [i \in 1..p.layerCount |->
                             Texture(FirstTileTex + i - 1, CreateTileBuffer(p, Null, i - 1))]
       /\ nextTex = FirstTileTex + Max(0, p.layerCount)
       /\ disposeCount = [id \in 1..(FirstTileTex + Max(0, p.layerCount) - 1) |-> 0]
       /\ effect = [bound |-> FALSE, tileBuffers |-> <<>>, frameBuffer |-> 0,
                    animationBuffer |-> 0]
       /\ onBind = <<"init">>
       /\ spriteMapSize = IF p.diffuse.ready THEN DiffuseSize(p.diffuse) ELSE <<0, 0>>
       /\ onLoad = IF p.diffuse.ready THEN 0 ELSE 1
       /\ phase = "idle"
       /\ lastCall = [op |-> "none"]
       /\ lastResult = "material"
       /\ repeated = FALSE
       /\ lastSample = NoSample
       /\ ops = 0
       /\ NoExport

-----------------------------------------------------------------------------
(* Inputs *)

\* two square sprites side by side in a 4 x 2 image; r gives their rotated flags
TestAtlas(r) ==
    << Sprite(Rect(0, 0, 2, 2), Rect(0, 0, 2, 2), [w |-> 2, h |-> 2], r[1], FALSE),
       Sprite(Rect(2, 0, 2, 2), Rect(0, 0, 2, 2), [w |-> 2, h |-> 2], r[2], FALSE) >>

\* sprite 0 opaque, sprite 1 with alpha 1/Q
TestDiffuse == [ready |-> TRUE, baseWidth |-> 4, baseHeight |-> 2,
                texels |-> << <<8, Q>>, <<4, 1>> >>]

Params(stage, rot, layers, frames, base, flip) ==
    [stageSize |-> stage, atlas |-> TestAtlas(rot), diffuse |-> TestDiffuse,
     layerCount |-> layers, maxAnimationFrames |-> frames, baseTile |-> base, flipU |-> flip,
     supportSwitchCaseInShader |-> TRUE]

\* positions in half units on the 3 x 2 stage: the cells (0,0), (2,1) and (1.5,0.5);
\* off the stage (3,0), which indexes cell (0,1), (0,2), past the end of the buffer,
\* and (-0.5,0), whose floor is -1
Array(items) == [kind |-> "Array", items |-> items]

Positions ==
    {Vector2(3, 1), Vector2(6, 0), Vector2(0, 4), Vector2(-1, 0),
     Array(<<Vector2(0, 0), Vector2(4, 2)>>), Array(<<Vector2(3, 1), Vector2(6, 0)>>)}

\* layerCount and maxAnimationFrames left to their defaults, or both at the bound
Init ==
    \E big \in BOOLEAN :
        Constructed(Params(<<3, 2>>, <<FALSE, TRUE>>,
                           IF big THEN Some(MaxLayers) ELSE Null,
                           IF big THEN Some(MaxAnimationFrames) ELSE Null, Null, Null))

\* sprite 1 on the layers that exist, one call on a layer that does not; animation
\* cells of sprite 0 and of the missing sprite 2, in slot 0 and in the missing slot
Next ==
    \/ \E layer \in 0..(MaxLayers - 1), pos \in Positions : ChangeTiles(layer, pos, 1)
    \/ ChangeTiles(MaxLayers, Vector2(0, 0), 1)
    \/ \E cellID \in {0, 2}, frame \in {0, MaxAnimationFrames} :
           AddAnimationToTile(cellID, frame, 1, HalfQ, Q)
    \/ Bind
    \/ Draw(<<0, 0>>, <<0, 1>>, 0, 0)
    \/ EndFrame

Spec == Init /\ [][Next]_vars

\* sprite 0 fully transparent, its colour kept
ClearDiffuse == [TestDiffuse EXCEPT !.texels[1] = <<8, 0>>]

\* The fragment program on a 2 x 2 stage, sprite 1 rotated: every layer count and
\* animation depth, FLIPU on or off for the materials without animation slots past 0,
\* the deepest material once more over an image whose sprite 0 is transparent, and
\* the plainest material once more on an engine without switch in shaders
InitSampler ==
    \E layers \in 1..MaxLayers, frames \in 1..MaxAnimationFrames,
       flip, clear, chain \in BOOLEAN :
        /\ flip => frames = 1
        /\ clear => (layers = MaxLayers /\ frames = 1 /\ ~flip)
        /\ chain => (layers = 1 /\ frames = 1 /\ ~flip /\ ~clear)
        /\ Constructed([Params(<<2, 2>>, <<FALSE, TRUE>>, Some(layers), Some(frames), Null,
                               IF flip THEN Some(TRUE) ELSE Null)
                            EXCEPT !.diffuse = IF clear THEN ClearDiffuse ELSE TestDiffuse,
                                   !.supportSwitchCaseInShader = ~chain])

\* times in both halves of the loop, at its middle, and in the next loop
Times == {0, HalfQ, Q - 1, Q + 1}

\* cumulative hold fractions that do not decrease along a row: 0.5 in slot 0 and
\* one step below 1 in the slots after it
HoldOf(frame) == IF frame = 0 THEN HalfQ ELSE Q - 1

\* sprite 1 in the cells (0,0) and (1.5,0.5); transitions to the other sprite
NextSampler ==
    \/ \E layer \in 0..(MaxLayers - 1), pos \in {Vector2(0, 0), Vector2(3, 1)} :
           layer < params.layerCount /\ ChangeTiles(layer, pos, 1)
    \/ \E cellID \in {0, 1}, frame \in 0..(MaxAnimationFrames - 1) :
           frame < params.maxAnimationFrames
               /\ AddAnimationToTile(cellID, frame, 1 - cellID, HoldOf(frame), Q)
    \/ Bind
    \/ \E tileID \in {<<0, 0>>, <<1, 0>>}, time \in Times, uninit \in {0, 1} :
           Draw(tileID, <<0, 1>>, time, uninit)
    \/ EndFrame

SpecSampler == InitSampler /\ [][NextSampler]_vars

\* The material on a 2 x 1 stage with and without optional parameters, and the
\* configurations at the edge: a stage without columns or without rows, a layer
\* count of 0 and of -1, an atlas without sprites
Configs ==
    LET P(stage, layers, base) == Params(stage, <<FALSE, TRUE>>, layers, Null, base, Null)
    IN {P(<<2, 1>>, Null, Null),
        P(<<2, 1>>, Some(MaxLayers), Some(1)),
        P(<<0, 2>>, Some(MaxLayers), Some(1)),
        P(<<2, 0>>, Null, Some(1)),
        P(<<2, 1>>, Some(0), Some(1)),
        P(<<2, 1>>, Some(-1), Null),
        [P(<<2, 1>>, Null, Some(1)) EXCEPT !.atlas = <<>>, !.diffuse.texels = <<>>]}

\* the diffuse image has loaded before the constructor runs, or has not
InitConstruct ==
    \E p0 \in Configs, ready \in BOOLEAN :
        Constructed([p0 EXCEPT !.diffuse.ready = ready])

\* sprite 1 in cell (1,0) of the first and of the last layer the bound allows, one
\* transition for sprite 0, draws of both cells
NextConstruct ==
    \/ \E layer \in {0, MaxLayers - 1} : ChangeTiles(layer, Vector2(2, 0), 1)
    \/ AddAnimationToTile(0, 0, 1, HalfQ, Q)
    \/ DiffuseLoaded
    \/ Bind
    \/ \E tileID \in {<<0, 0>>, <<1, 0>>} : Draw(tileID, <<0, 1>>, 0, 0)
    \/ EndFrame

SpecConstruct == InitConstruct /\ [][NextConstruct]_vars

-----------------------------------------------------------------------------
(* USDExport.ExportAsBinaryZip: the walk from each mesh to its root parent *)

\* node.parent; the nodes are 1..MaxNodes and 0 is null
Parent(n) == IF n = 0 THEN 0 ELSE scene.parent[n]

\* scene.meshes.filter((mesh) => mesh.geometry): those the forEach has yet to visit
MeshesLeft == {n \in DOMAIN scene.geometry : scene.geometry[n] /\ n > mesh}

\* forEach: the callback starts for the next mesh (lines 113-117), or no mesh is left
ForEachMesh ==
    /\ pc = "forEach"
    /\ IF MeshesLeft = {}
       THEN pc' = "end" /\ UNCHANGED <<mesh, target, rootParent>>
       ELSE LET next == CHOOSE n \in MeshesLeft : \A m \in MeshesLeft : n <= m
            IN mesh' = next /\ rootParent' = next /\ target' = next /\ pc' = "while"
    /\ UNCHANGED <<scene, output>>
    /\ UNCHANGED materialVars

\* while (target?.parent)
WhileTest ==
    /\ pc = "while"
    /\ pc' = IF target # 0 /\ Parent(target) # 0 THEN "body" ELSE "after"
    /\ UNCHANGED <<scene, mesh, target, rootParent, output>>
    /\ UNCHANGED materialVars

\* rootParent = target; target = mesh.parent;
WhileBody ==
    /\ pc = "body"
    /\ rootParent' = target
    /\ target' = Parent(mesh)
    /\ pc' = "while"
    /\ UNCHANGED <<scene, mesh, output>>
    /\ UNCHANGED materialVars

\* lines 124-150: rootParent ?? mesh, and the mesh is written
BuildMesh ==
    /\ pc = "after"
    /\ output' = Append(output, [mesh |-> mesh,
                                 rootParent |-> IF rootParent = 0 THEN mesh ELSE rootParent])
    /\ pc' = "forEach"
    /\ UNCHANGED <<scene, mesh, target, rootParent>>
    /\ UNCHANGED materialVars

\* no material has been constructed
NoMaterial ==
    /\ params = Null /\ frameBuffer = Null /\ animationBuffer = Null /\ tileBuffers = <<>>
    /\ disposeCount = <<>> /\ nextTex = 1
    /\ effect = [bound |-> FALSE, tileBuffers |-> <<>>, frameBuffer |-> 0, animationBuffer |-> 0]
    /\ onBind = <<>> /\ phase = "idle"
    /\ lastCall = [op |-> "none"] /\ lastResult = "none" /\ repeated = FALSE
    /\ lastSample = NoSample /\ spriteMapSize = <<0, 0>> /\ onLoad = 0 /\ ops = 0

\* the node reached from n by k parent links
RECURSIVE Ancestor(_, _, _)
Ancestor(parent, n, k) == IF k = 0 \/ n = 0 THEN n ELSE Ancestor(parent, parent[n], k - 1)

\* every scene graph of MaxNodes nodes: parent links without a cycle, any of the
\* nodes a mesh with geometry
Scenes ==
    {[parent |-> par, geometry |-> g] :
         par \in {q \in [1..MaxNodes -> 0..MaxNodes] :
                      \A n \in 1..MaxNodes : Ancestor(q, n, MaxNodes) = 0},
         g \in [1..MaxNodes -> BOOLEAN]}

InitUSD ==
    /\ NoMaterial
    /\ scene \in Scenes
    /\ mesh = 0 /\ target = 0 /\ rootParent = 0
    /\ pc = "forEach" /\ output = <<>>

NextUSD == ForEachMesh \/ WhileTest \/ WhileBody \/ BuildMesh

\* the export is synchronous code: it runs on as long as it has a next step
SpecUSD == InitUSD /\ [][NextUSD]_vars /\ WF_vars(NextUSD)

-----------------------------------------------------------------------------
(* Properties of the mutations and the bindings (under Spec) *)

LastLayerValid ==
    lastCall.op = "changeTiles" /\ lastCall.layer >= 0 /\ lastCall.layer < params.layerCount

\* the floored cell of a position, and whether it lies on the stage
Cell(v) == <<Floor2(v.x), Floor2(v.y)>>
OnStage(v) ==
    /\ Floor2(v.x) >= 0 /\ Floor2(v.x) < StageX(params)
    /\ Floor2(v.y) >= 0 /\ Floor2(v.y) < StageY(params)
AllOnStage(pos) == \A k \in DOMAIN PosList(pos) : OnStage(PosList(pos)[k])

\* channel 0 of cell (x, y) of a tile grid
CellValue(data, x, y) == data[(y * StageX(params) + x) * 4 + 1]

\* C1: a changeTiles call with a position whose floored coordinates lie off the
\* stage reports an error and leaves the layer's grid as it was before the call.
C1_OutsideIsRejected ==
    [][(ops' = ops + 1 /\ LastLayerValid' /\ ~AllOnStage(lastCall'.pos))
           => (/\ lastResult' # "void"
               /\ tileBuffers'[lastCall'.layer + 1].data = tileBuffers[lastCall'.layer + 1].data)]_vars

\* C3: no texture the effect has bound for the fragment program is disposed: a
\* replaced buffer is released only once the binding holds its replacement.
C3_BoundNeverDisposed ==
    effect.bound => \A id \in BoundTextures : disposeCount[id] = 0

AnimationArgsValid ==
    /\ lastCall.op = "addAnimationToTile"
    /\ lastCall.cellID >= 0 /\ lastCall.cellID < SpriteCount(params)
    /\ lastCall.frame >= 0 /\ lastCall.frame < params.maxAnimationFrames

\* C4: an addAnimationToTile call with frame >= maxAnimationFrames or a sprite
\* index outside [0, spriteCount) reports an error, writes no cell of the
\* animation table and swaps in no new buffer.
C4_BadAnimationIsRejected ==
    [][(ops' = ops + 1 /\ lastCall'.op = "addAnimationToTile" /\ ~AnimationArgsValid')
           => (/\ lastResult' # "void"
               /\ animationBuffer' = animationBuffer)]_vars

\* the grid texture the effect has bound for the layer of the last changeTiles call
BoundGrid == effect.tileBuffers[lastCall.layer + 1]

\* C8: at every draw after a changeTiles call, the grid the fragment program
\* reads for that layer is alive, is the grid the call built, and holds the
\* call's tile at every on-stage position of the call, not only at some of them.
C8_AllWritesAtDraw ==
    (LastLayerValid /\ lastResult = "void" /\ phase # "idle")
        => /\ IsLive(BoundGrid)
           /\ BoundGrid = tileBuffers[lastCall.layer + 1].tex
           /\ \A k \in DOMAIN PosList(lastCall.pos) :
                  LET v == PosList(lastCall.pos)[k]
                  IN OnStage(v) =>
                         CellValue(Gpu(BoundGrid, 0, 0), Cell(v)[1], Cell(v)[2]) = lastCall.tile

\* a draw after a changeTiles call on two different on-stage cells
C8_Witness ==
    /\ LastLayerValid /\ phase = "drawn"
    /\ lastCall.pos.kind = "Array" /\ AllOnStage(lastCall.pos)
    /\ Cell(lastCall.pos.items[1]) # Cell(lastCall.pos.items[2])
    /\ lastCall.tile # params.baseTile
    /\ effect.tileBuffers[lastCall.layer + 1] \in {lastSample.textures[k] : k \in DOMAIN lastSample.textures}

\* C9: a changeTiles call with on-stage positions that repeats the call before
\* it leaves the layer's grid as that first call left it.
C9_ChangeTilesIdempotent ==
    [][(ops' = ops + 1 /\ repeated' /\ LastLayerValid' /\ AllOnStage(lastCall'.pos))
           => tileBuffers'[lastCall'.layer + 1].data = tileBuffers[lastCall.layer + 1].data]_vars

\* the same changeTiles call was made twice in a row and changed the grid
C9_Witness ==
    /\ repeated /\ LastLayerValid /\ AllOnStage(lastCall.pos) /\ lastResult = "void"
    /\ lastCall.tile # 0
    /\ CellValue(tileBuffers[lastCall.layer + 1].data,
                 Cell(PosList(lastCall.pos)[1])[1], Cell(PosList(lastCall.pos)[1])[2]) = lastCall.tile

\* the textures the material holds for its tile grids and its animation table
HeldTextures == {animationBuffer.tex} \cup {tileBuffers[k].tex : k \in DOMAIN tileBuffers}

\* the grid and animation textures created so far that a mutation has replaced
Replaced == ({2} \cup FirstTileTex..(nextTex - 1)) \ HeldTextures

\* C12: after any calls of changeTiles and addAnimationToTile the material holds
\* layerCount grid textures and one animation texture, all different and none
\* disposed, and every texture a call replaced has been disposed exactly once.
C12_BuffersOwned ==
    /\ Len(tileBuffers) = params.layerCount
    /\ Cardinality(HeldTextures) = params.layerCount + 1
    /\ \A id \in HeldTextures \cup {frameBuffer.tex} : disposeCount[id] = 0
    /\ \A id \in Replaced : disposeCount[id] = 1

\* a grid texture and the animation texture have both been replaced
C12_Witness ==
    /\ ops >= 2
    /\ 2 \in Replaced
    /\ \E id \in Replaced : id >= FirstTileTex
    /\ \A id \in Replaced : disposeCount[id] = 1

\* C13: from the bind of a frame until its end, the effect's grid array and
\* animation bindings are the material's newest textures, whatever calls of
\* changeTiles and addAnimationToTile were made since the bind before.
C13_NewestAtBind ==
    phase # "idle" =>
        /\ effect.bound
        /\ effect.tileBuffers = TexIds(tileBuffers)
        /\ effect.animationBuffer = animationBuffer.tex
        /\ effect.frameBuffer = frameBuffer.tex

\* the effect is bound after calls replaced the grids of two layers
C13_Witness ==
    /\ phase = "bound" /\ ops >= 2 /\ Len(tileBuffers) >= 2
    /\ \A k \in 1..2 : tileBuffers[k].tex >= FirstTileTex + params.layerCount
    /\ effect.tileBuffers = TexIds(tileBuffers)

\* the places in a grid's array of the first channel of the cells a call names
NamedCells(pos) ==
    {(Cell(PosList(pos)[k])[2] * StageX(params) + Cell(PosList(pos)[k])[1]) * 4 + 1 :
         k \in DOMAIN PosList(pos)}

\* C19: a changeTiles call on an existing layer with on-stage positions sets
\* channel 0 of the cells at the floored positions of that layer's grid to the
\* tile and changes nothing else: not the other channels or cells of the grid,
\* not the grids of the other layers, not the animation or the frame table.
C19_OnlyNamedCells ==
    [][(ops' = ops + 1 /\ LastLayerValid' /\ AllOnStage(lastCall'.pos))
           => (/\ lastResult' = "void"
               /\ DOMAIN tileBuffers' = DOMAIN tileBuffers
               /\ \A l \in DOMAIN tileBuffers :
                      /\ DOMAIN tileBuffers'[l].data = DOMAIN tileBuffers[l].data
                      /\ \A k \in DOMAIN tileBuffers[l].data :
                             tileBuffers'[l].data[k] =
                                 IF l = lastCall'.layer + 1 /\ k \in NamedCells(lastCall'.pos)
                                 THEN lastCall'.tile ELSE tileBuffers[l].data[k]
               /\ animationBuffer' = animationBuffer
               /\ frameBuffer' = frameBuffer)]_vars

\* a call on the second layer with two on-stage cells has changed both of them
\* and left the first layer as constructed
C19_Witness ==
    /\ LastLayerValid /\ lastResult = "void" /\ lastCall.layer = 1
    /\ lastCall.pos.kind = "Array" /\ AllOnStage(lastCall.pos)
    /\ Cardinality(NamedCells(lastCall.pos)) = 2
    /\ \A k \in NamedCells(lastCall.pos) : tileBuffers[2].data[k] = lastCall.tile
    /\ tileBuffers[2].data # TileFill(params, 1)
    /\ tileBuffers[1].data = TileFill(params, 0)

-----------------------------------------------------------------------------
(* Properties of the fragment program (under SpecSampler) *)

Swap(uv) == <<uv[2], uv[1]>>

\* the iterations of the last fragment evaluation that read a tile grid
GridIterations == {k \in DOMAIN lastSample.iters : k <= params.layerCount}

\* C2: the tile coordinate a layer is sampled with is the pixel's coordinate,
\* swapped exactly when that layer's own resolved frame is rotated.
C2_RotationPerLayer ==
    phase = "drawn" =>
        \A k \in GridIterations :
            lastSample.iters[k].tileUV =
                IF lastSample.iters[k].frameData[3].z = 1
                THEN Swap(TileUV(lastSample.frac)) ELSE TileUV(lastSample.frac)

\* the frame table record of a sprite, as the atlas gives it
FrameRecord(s) ==
    << [x |-> s.frame.x, y |-> s.frame.y, z |-> s.frame.w, w |-> s.frame.h],
       [x |-> s.spriteSourceSize.x, y |-> s.spriteSourceSize.y, z |-> 0,
        w |-> s.spriteSourceSize.h],
       [x |-> s.sourceSize.w, y |-> s.sourceSize.h,
        z |-> IF s.rotated THEN 1 ELSE 0, w |-> IF s.trimmed THEN 1 ELSE 0] >>

IsSprite(s) == s \in 0..(SpriteCount(params) - 1)

\* cell (sprite, slot) of the animation table
AnimationCell(sprite, slot) ==
    Fetch(animationBuffer.data, SpriteCount(params), params.maxAnimationFrames, sprite, slot)

\* the last call was changeTiles with a sprite that is not animated, the call
\* named an on-stage position in the tile that was drawn
DrawnAfterChangeTiles ==
    /\ phase = "drawn" /\ LastLayerValid /\ lastResult = "void"
    /\ IsSprite(lastCall.tile) /\ AnimationCell(lastCall.tile, 0).y = 0
    /\ \E k \in DOMAIN PosList(lastCall.pos) :
           OnStage(PosList(lastCall.pos)[k]) /\ Cell(PosList(lastCall.pos)[k]) = lastSample.tileID

\* C6: after changeTiles wrote a sprite that is not animated at an on-stage
\* position, the fragment program at a pixel of that tile reads the sprite from
\* the layer's grid, resolves it to itself and fetches its frame table record.
C6_WrittenCellIsSampled ==
    DrawnAfterChangeTiles =>
        LET it == lastSample.iters[lastCall.layer + 1]
        IN /\ it.raw = lastCall.tile
           /\ it.frameID = lastCall.tile
           /\ it.frameData = FrameRecord(params.atlas[lastCall.tile + 1])

\* such a draw, of a tile other than (0, 0) whose sprite the call changed
C6_Witness ==
    /\ DrawnAfterChangeTiles
    /\ lastCall.tile # params.baseTile
    /\ lastSample.tileID # <<0, 0>>

\* the animation row of sprite a is the single transition (b, 0.5, 1.0) in slot 0
SingleTransition(a, b) ==
    /\ AnimationCell(a, 0) = [x |-> b, y |-> HalfQ, z |-> Q, w |-> 0]
    /\ \A f \in 1..(params.maxAnimationFrames - 1) :
           AnimationCell(a, f) = [x |-> 0, y |-> 0, z |-> 0, w |-> 0]

\* C7: a tile holding a sprite A whose animation row is the single transition
\* (B, 0.5, 1.0) resolves to B while time mod 1 < 0.5 and to A from 0.5 on.
C7_HalfLoop ==
    phase = "drawn" =>
        \A k \in GridIterations :
            LET a == lastSample.iters[k].raw
            IN (IsSprite(a) /\ \E b \in 0..(SpriteCount(params) - 1) : SingleTransition(a, b))
                   => lastSample.iters[k].frameID =
                          IF lastSample.time % Q < HalfQ THEN AnimationCell(a, 0).x ELSE a

\* a draw in the second loop, first half, that shows B for a tile holding A
C7_Witness ==
    /\ phase = "drawn" /\ params.maxAnimationFrames > 1 /\ lastSample.time > Q
    /\ \E k \in GridIterations :
           LET a == lastSample.iters[k].raw
           IN /\ IsSprite(a)
              /\ \E b \in 0..(SpriteCount(params) - 1) : b # a /\ SingleTransition(a, b)
              /\ lastSample.iters[k].frameID # a

\* res = x + (y - x) * a for fractions n/d and a in units of 1/Q
IsLerp(res, x, y, a) ==
    res.n * (x.d * y.d * Q) = res.d * (x.n * y.d * Q + (y.n * x.d - x.n * y.d) * a)

\* C10: the first iteration's sample seeds colour and alpha; every later sample
\* (C, a) makes alpha min(alpha + a, 1) and colour lerp(colour, C, a); over a fully
\* opaque first sample C0 the second sample (C1, a1) gives lerp(C0, C1, a1), alpha 1.
C10_AlphaOver ==
    phase = "drawn" =>
        LET it == lastSample.iters
        IN /\ it[1].sColor = it[1].nc
           /\ \A k \in 2..Len(it) :
                  /\ it[k].sColor.a = Min(it[k - 1].sColor.a + it[k].nc.a, Q)
                  /\ IsLerp(it[k].sColor.rgb, it[k - 1].sColor.rgb, it[k].nc.rgb, it[k].nc.a)
           /\ it[1].nc.a = Q =>
                  /\ it[2].sColor.a = Q
                  /\ IsLerp(it[2].sColor.rgb, it[1].nc.rgb, it[2].nc.rgb, it[2].nc.a)
           /\ lastSample.sColor = it[Len(it)].sColor

\* an opaque first sample under a second one of alpha 1/Q and another colour
C10_Witness ==
    /\ phase = "drawn"
    /\ lastSample.iters[1].nc.a = Q
    /\ lastSample.iters[2].nc.a = 1
    /\ lastSample.iters[2].nc.rgb # lastSample.iters[1].nc.rgb
    /\ lastSample.iters[2].sColor.rgb.n * 1 # lastSample.iters[1].nc.rgb.n * lastSample.iters[2].sColor.rgb.d

\* the slots of sprite a's animation row whose hold fraction exceeds mt
SlotsOver(a, mt) ==
    {f \in 0..(params.maxAnimationFrames - 1) : AnimationCell(a, f).y * Q > mt}

\* C17: for a tile whose sprite has a hold fraction > 0 in slot 0, the resolved
\* frame is the nextSpriteIndex of the first of the slots 0..maxAnimationFrames-1
\* whose hold fraction is strictly greater than mt = (time * speed) mod 1, the
\* last slot included.
C17_ScanEverySlot ==
    phase = "drawn" =>
        \A k \in GridIterations :
            LET a == lastSample.iters[k].raw
            IN (IsSprite(a) /\ AnimationCell(a, 0).y > 0) =>
                   LET over == SlotsOver(a, Mt(lastSample.time, AnimationCell(a, 0).z))
                   IN over # {} =>
                          lastSample.iters[k].frameID =
                              AnimationCell(a, CHOOSE f \in over : \A g \in over : f <= g).x

\* C20: an addAnimationToTile call with cellID in [0, spriteCount) and frame in
\* [0, maxAnimationFrames) sets channels 0, 1, 2 of the animation cell at column
\* cellID, row frame to (toCell, time, speed) and changes nothing else: not that
\* cell's channel 3, no other animation cell, no tile grid, not the frame table.
C20_OneAnimationCell ==
    [][(ops' = ops + 1 /\ AnimationArgsValid')
           => (/\ lastResult' = "void"
               /\ Len(animationBuffer'.data) = Len(animationBuffer.data)
               /\ \A sprite \in 0..(SpriteCount(params) - 1),
                      slot \in 0..(params.maxAnimationFrames - 1) :
                      AnimationCell(sprite, slot)' =
                          IF sprite = lastCall'.cellID /\ slot = lastCall'.frame
                          THEN [x |-> lastCall'.toCell, y |-> lastCall'.time,
                                z |-> lastCall'.speed, w |-> AnimationCell(sprite, slot).w]
                          ELSE AnimationCell(sprite, slot)
               /\ tileBuffers' = tileBuffers
               /\ frameBuffer' = frameBuffer)]_vars

\* a call for sprite 1, slot 1 has set that cell and no other
C20_Witness ==
    /\ AnimationArgsValid /\ lastResult = "void"
    /\ lastCall.cellID = 1 /\ lastCall.frame = 1
    /\ AnimationCell(1, 1) = [x |-> lastCall.toCell, y |-> lastCall.time,
                               z |-> lastCall.speed, w |-> 0]
    /\ lastCall.time # 0 /\ lastCall.speed # 0
    /\ \A sprite \in 0..1, slot \in 0..1 :
           (sprite # 1 \/ slot # 1) => AnimationCell(sprite, slot) = [x |-> 0, y |-> 0, z |-> 0, w |-> 0]

\* C21: in every iteration of the layer loop, the last one i = layerCount
\* included, a case of the generated layer lookup assigns frameID from the grid
\* of an existing layer before the animation and frame tables are read with it.
C21_FrameIdAssigned ==
    phase = "drawn" =>
        \A k \in DOMAIN lastSample.iters :
            /\ lastSample.iters[k].assigned
            /\ lastSample.iters[k].i < params.layerCount

\* the animation table's column of sprite a, slot 0 first
Column(a) == [f \in 1..params.maxAnimationFrames |-> AnimationCell(a, f - 1)]

\* what a column alone resolves its sprite a to at a time: nothing but the column,
\* a and the time enters
ColumnResolve(column, a, time) ==
    LET mt == Mt(time, column[1].z)
        hits == {f \in DOMAIN column : column[Max(f - 1, 1)].y * Q > mt}
    IN IF column[1].y > 0 /\ hits # {}
       THEN column[Max((CHOOSE f \in hits : \A g \in hits : f <= g) - 1, 1)].x
       ELSE a

\* C22: the frame a tile's raw sprite index a resolves to is a itself or a
\* nextSpriteIndex stored in a's column of the animation table, and it is a
\* function of that column, a and the time alone: no cell of another sprite's
\* column enters, and a target that is itself animated is not followed.
C22_OwnColumnOnly ==
    phase = "drawn" =>
        \A k \in GridIterations :
            LET a == lastSample.iters[k].raw
            IN IsSprite(a) =>
                   /\ lastSample.iters[k].frameID
                          \in {a} \cup {Column(a)[f].x : f \in DOMAIN Column(a)}
                   /\ lastSample.iters[k].frameID = ColumnResolve(Column(a), a, lastSample.time)

\* a tile's sprite resolved to a target whose own row, at the same time, leads on
\* to yet another sprite: the target was shown
C22_Witness ==
    /\ phase = "drawn"
    /\ \E k \in GridIterations :
           LET a == lastSample.iters[k].raw
               b == lastSample.iters[k].frameID
           IN /\ IsSprite(a) /\ IsSprite(b) /\ b # a
              /\ b = AnimationCell(a, 0).x
              /\ AnimationCell(b, 0).y > 0
              /\ ColumnResolve(Column(b), b, lastSample.time) # b

\* accumulator values other than the vec4(0.) the loop is entered with
Seeds == {Colour(4, 1), Colour(8, Q)}

\* C18: the layer loop runs layerCount + 1 iterations, i = 0..layerCount; the
\* first puts layer 0's sample in the running colour and alpha whatever they were,
\* so every iteration's result is the same for any value the accumulator had
\* before the loop, also when layer 0's sample is fully transparent.
C18_SeedIsOverwritten ==
    phase = "drawn" =>
        LET it == lastSample.iters
        IN /\ Len(it) = params.layerCount + 1
           /\ \A k \in DOMAIN it : it[k].i = k - 1
           /\ it[1].sColor = it[1].nc
           /\ \A seed \in Seeds :
                  LayerLoop(0, lastSample.tileID, TileUV(lastSample.frac), seed,
                            lastSample.time, it[Len(it)].raw, 0) = it

\* a draw over a fully transparent layer 0 sample whose colour is not 0
C18_Witness ==
    /\ phase = "drawn" /\ params.layerCount >= 2
    /\ Len(lastSample.iters) = params.layerCount + 1
    /\ lastSample.iters[1].nc.a = 0
    /\ lastSample.iters[1].nc.rgb.n # 0
    /\ lastSample.iters[1].sColor = lastSample.iters[1].nc
    /\ lastSample.iters[2].nc.a > 0

-----------------------------------------------------------------------------
(* The frame table (under SpecFrame) *)

\* a sprite whose ten numbers all differ, and differ from those of the other kinds
SampleSprite(kind, r, t) ==
    LET b == 10 * kind
    IN Sprite(Rect(b + 1, b + 2, b + 3, b + 4), Rect(b + 5, b + 6, b + 7, b + 8),
              [w |-> b + 9, h |-> b + 10], r, t)

\* a sprite in the far corner of the largest image
CornerSprite ==
    Sprite(Rect(MaxPixel - 1, MaxPixel - 2, 1, 2), Rect(0, 1, 1, 2),
           [w |-> MaxPixel, h |-> MaxPixel - 3], TRUE, TRUE)

SampleSprites ==
    {SampleSprite(kind, r, t) : kind \in 0..1, r \in BOOLEAN, t \in BOOLEAN} \cup {CornerSprite}

RECURSIVE Atlases(_)
Atlases(n) ==
    IF n = 0 THEN {<<>>}
    ELSE LET shorter == Atlases(n - 1)
         IN shorter \cup {Append(a, s) : a \in {b \in shorter : Len(b) = n - 1}, s \in SampleSprites}

InitFrame ==
    \E atlas \in Atlases(MaxSprites) \ {<<>>} :
        Constructed([stageSize |-> <<1, 1>>, atlas |-> atlas,
                     diffuse |-> [ready |-> TRUE, baseWidth |-> MaxPixel, baseHeight |-> MaxPixel,
                                  texels |-> [k \in DOMAIN atlas |-> <<8, Q>>]],
                     layerCount |-> Null, maxAnimationFrames |-> Null, baseTile |-> Null,
                     flipU |-> Null, supportSwitchCaseInShader |-> TRUE])

\* the fragment program reads the record of any one sprite in its last iteration
NextFrame ==
    \/ Bind
    \/ \E uninit \in 0..(MaxSprites - 1) :
           uninit < SpriteCount(params) /\ Draw(<<0, 0>>, <<0, 1>>, 0, uninit)
    \/ EndFrame

SpecFrame == InitFrame /\ [][NextFrame]_vars

\* C5: for every sprite i, row 0 channels 0-3, row 1 channels 0-1 and row 2
\* channels 0-3 of column i of the frame table are the sprite's frame rectangle,
\* trim offset, source size, rotated and trimmed flags, and a fragment that
\* resolves to sprite i fetches these values.
C5_FrameTableLossless ==
    /\ \A i \in 0..(SpriteCount(params) - 1) :
           LET s == params.atlas[i + 1]
               n == SpriteCount(params)
               row0 == Fetch(frameBuffer.data, n, 4, i, 0)
               row1 == Fetch(frameBuffer.data, n, 4, i, 1)
               row2 == Fetch(frameBuffer.data, n, 4, i, 2)
           IN /\ <<row0.x, row0.y, row0.z, row0.w>> = <<s.frame.x, s.frame.y, s.frame.w, s.frame.h>>
              /\ <<row1.x, row1.y>> = <<s.spriteSourceSize.x, s.spriteSourceSize.y>>
              /\ <<row2.x, row2.y>> = <<s.sourceSize.w, s.sourceSize.h>>
              /\ row2.z = (IF s.rotated THEN 1 ELSE 0)
              /\ row2.w = (IF s.trimmed THEN 1 ELSE 0)
    /\ phase = "drawn" =>
           \A k \in DOMAIN lastSample.iters :
               IsSprite(lastSample.iters[k].frameID) =>
                   lastSample.iters[k].frameData =
                       FrameRecord(params.atlas[lastSample.iters[k].frameID + 1])

\* a fragment fetched the record of the last of several different sprites
C5_Witness ==
    /\ phase = "drawn" /\ SpriteCount(params) > 1
    /\ params.atlas[1] # params.atlas[SpriteCount(params)]
    /\ \E k \in DOMAIN lastSample.iters :
           /\ lastSample.iters[k].frameID = SpriteCount(params) - 1
           /\ lastSample.iters[k].frameData[1].x = params.atlas[SpriteCount(params)].frame.x

-----------------------------------------------------------------------------
(* Properties of construction (under SpecConstruct) *)

\* the stage has no cell, or there is no layer
BadConfig == StageX(params) = 0 \/ StageY(params) = 0 \/ params.layerCount < 1

\* C11: the constructor, given a stage of width or height 0 or a layerCount below
\* 1, gives its caller an error and not a material with buffers.
C11_BadConfigIsRejected ==
    (ops = 0 /\ BadConfig) => lastResult # "material"

\* C14: the constructor leaves one grid per layer 0..layerCount-1, each of
\* stageWidth x stageHeight cells of 4 channels, channel 0 of every cell being
\* baseTile on layer 0 and 0 on the other layers, channels 1-3 being 0; a draw
\* before any mutation reads these values.
C14_DefaultGrids ==
    ops = 0 =>
        /\ Len(tileBuffers) = Max(0, params.layerCount)
        /\ \A layer \in 0..(params.layerCount - 1) :
               LET data == tileBuffers[layer + 1].data
               IN /\ Len(data) = StageX(params) * StageY(params) * 4
                  /\ \A k \in DOMAIN data :
                         data[k] = IF (k - 1) % 4 = 0 /\ layer = 0 THEN params.baseTile ELSE 0
        /\ (phase = "drawn" /\ ~BadConfig) =>
               \A k \in GridIterations :
                   lastSample.iters[k].raw = IF k = 1 THEN params.baseTile ELSE 0

\* a draw of the material as constructed, with two layers and a baseTile other than 0
C14_Witness ==
    /\ ops = 0 /\ phase = "drawn" /\ ~BadConfig
    /\ params.layerCount >= 2 /\ params.baseTile # 0
    /\ lastSample.tileID = <<1, 0>>
    /\ lastSample.iters[1].raw = params.baseTile
    /\ lastSample.iters[2].raw = 0

\* C15: for an atlas without sprites the frame table is one column wide, 4 rows
\* high, and holds zeros only.
C15_EmptyAtlasOneWide ==
    SpriteCount(params) = 0 =>
        /\ FrameBufferWidth(params) = 1
        /\ Len(frameBuffer.data) = 16
        /\ \A k \in DOMAIN frameBuffer.data : frameBuffer.data[k] = 0

\* C16: the spriteMapSize uniform is (0, 0) as long as the diffuse image has not
\* loaded and its base width and height from then on, from the end of the
\* constructor if the image was ready by then; the constructor reports no error
\* either way, and changeTiles and addAnimationToTile leave the uniform alone.
C16_AtlasSizeDeferred ==
    /\ spriteMapSize = IF params.diffuse.ready
                       THEN <<params.diffuse.baseWidth, params.diffuse.baseHeight>>
                       ELSE <<0, 0>>
    /\ ops = 0 => lastResult = "material"

\* the image loaded after construction, mutations followed, and a frame was drawn
C16_Witness ==
    /\ onLoad > 0 /\ params.diffuse.ready
    /\ ops >= 1 /\ lastResult = "void" /\ phase = "drawn"
    /\ spriteMapSize = <<params.diffuse.baseWidth, params.diffuse.baseHeight>>
    /\ spriteMapSize[1] # spriteMapSize[2]

-----------------------------------------------------------------------------
(* Properties of the USD export (under SpecUSD) *)

\* C23: for every mesh the export visits, the loop that walks up from the mesh
\* to its root parent ends, whether the mesh has no parent, a parent without a
\* parent, or a parent that has a parent itself.
C23_RootWalkTerminates == (pc = "while") ~> (pc = "after")

====
